---- MODULE Spec2Model ----
(***************************************************************************)
(* A model of the FAT volume readers of fat.rs:                            *)
(*   src/src/fat.rs    FileSystem  (16-bit FAT, fixed root region)         *)
(*   src/src/fat32.rs  FAT32       (32-bit FAT, root is a cluster chain)   *)
(*                                                                         *)
(* The image is the environment: a boot record, one FAT copy's entries,    *)
(* the fixed root region and the data clusters, each a sequence of 32-byte *)
(* directory records.  The readers address it by byte offset, computed as  *)
(* the code computes it; the image answers a read at an offset with what   *)
(* the on-disk layout puts there, or with end-of-file.                     *)
(*                                                                         *)
(* Integer arithmetic keeps its width.  An overflowing +, - or * aborts in *)
(* a build with overflow checks and wraps in a build without: both         *)
(* outcomes are produced (Arith, ArithW).  A shift drops bits in either    *)
(* build.  The model checker's integers end at 2^31 - 1, so the sizes of   *)
(* whole volumes are computed on base-256 digit sequences (ToLimbs); the   *)
(* offsets into the small images that are walked stay below that.          *)
(***************************************************************************)
EXTENDS Integers, Sequences, FiniteSets, TLC

VARIABLES
    variant,    \* 16 or 32: which on-disk layout the image has
    boot,       \* the boot record's fields, as stored in the image
    fatTab,     \* the first FAT copy: cluster number -> entry value
    rootRecs,   \* the fixed root region's records (16-bit layout)
    clus,       \* data cluster number -> its records
    pc,         \* "closed" | "idle" | "rd16" | "rd32" | "done" | "aborted"
    vol,        \* the opened volume's parsed fields (FileSystem.br / FAT32)
    pos,        \* the storage handle's position, in bytes
    rd,         \* the locals of the read_directory call in progress
    result,     \* the outcome of the last completed call
    hist,       \* history of the call in progress (observation only)
    seen        \* the listings a caller has kept: {[dir, entries]}

vars == <<variant, boot, fatTab, rootRecs, clus, pc, vol, pos, rd, result, hist, seen>>
image == <<variant, boot, fatTab, rootRecs, clus>>

----------------------------------------------------------------------------
(* Bounds of the model *)

\* the highest data cluster the image holds (clusters 2..MaxCluster)
MaxCluster == 3
\* a read_directory call is followed for at most this many FAT successor lookups
MaxLookups == 8

(* Program constants *)

\* fat32.rs: const SECTOR_SIZE: u32 = 0x200
SECTOR_SIZE == 512
\* the long-filename attribute value, flags != 0xf
LFN_FLAGS == 15
\* the directory bit of the attribute byte, flags & 0x10
DIR_FLAG == 16
\* fat.rs: if cluster > 0xffef { break }
EOC16_ABOVE == 65519
\* fat32.rs: while cluster < 0xfffff0
LOOP32_BELOW == 16777200
\* the recognised extended-boot-record signatures
SIG_A == 40
SIG_B == 41

----------------------------------------------------------------------------
(* Machine arithmetic *)

\* The outcomes of a +, - or * whose mathematical result is x, in w bits
\* (w = 16 or 32): the value when it fits; otherwise an abort (overflow
\* checks on) or the wrapped value (overflow checks off).  Every x >= 0 the
\* checker can hold fits 32 bits.
Arith(x, w) ==
    IF x >= 0 /\ (w = 32 \/ x < 2^w)
    THEN {[ok |-> TRUE, val |-> x]}
    ELSE {[ok |-> FALSE, val |-> 0], [ok |-> TRUE, val |-> x % (2^w)]}

\* x << k in w bits: the bits shifted out are dropped, in every build
Shl(x, k, w) == IF w = 32 THEN x * 2^k ELSE (x * 2^k) % (2^w)

\* A natural number as its base-256 digits, least significant first, no
\* leading zero digit
RECURSIVE ToLimbs(_)
ToLimbs(n) == IF n = 0 THEN <<>> ELSE <<n % 256>> \o ToLimbs(n \div 256)

\* digits without leading zero digits
RECURSIVE Norm(_)
Norm(a) == IF a = <<>> THEN <<>>
           ELSE IF a[Len(a)] = 0 THEN Norm(SubSeq(a, 1, Len(a) - 1)) ELSE a

\* (a * k + carry) on digits, for k below 2^16
RECURSIVE MulCarry(_, _, _)
MulCarry(a, k, carry) ==
    IF a = <<>> THEN ToLimbs(carry)
    ELSE LET t == Head(a) * k + carry
         IN  <<t % 256>> \o MulCarry(Tail(a), k, t \div 256)

MulLimbs(a, k) == Norm(MulCarry(a, k, 0))

\* the low 32 bits
Wrap32(a) == Norm(SubSeq(a, 1, IF Len(a) < 4 THEN Len(a) ELSE 4))

\* The outcomes of a 32-bit + or * whose mathematical result has digits a
ArithW(a) ==
    IF Len(a) <= 4
    THEN {[ok |-> TRUE, val |-> a]}
    ELSE {[ok |-> FALSE, val |-> <<>>], [ok |-> TRUE, val |-> Wrap32(a)]}

----------------------------------------------------------------------------
(* Directory records, as stored *)

Rec(n, a, h, l, s) == [name0 |-> n, attr |-> a, hi |-> h, lo |-> l, size |-> s]

\* first name byte 0x00
RecTerm == Rec(0, 0, 0, 0, 0)
\* a long-filename record (attribute 0x0F)
RecLfn == Rec(65, LFN_FLAGS, 0, 0, 0)
\* a file, "FILE1   TXT", 100 bytes, first cluster 3
RecFile == Rec(70, 32, 0, 3, 100)
\* a subdirectory, "SUBDIR", first cluster 2 (low field), high field 1
RecDir == Rec(83, DIR_FLAG, 1, 2, 0)

\* the contents a cluster (or the root region) is filled with, repeated
Patterns == { <<RecFile, RecDir>>, <<RecLfn, RecFile>>,
              <<RecDir, RecTerm>>, <<RecTerm, RecFile>> }

Fill(p, n) == [i \in 1..n |-> p[((i - 1) % Len(p)) + 1]]

----------------------------------------------------------------------------
(* The image: where the on-disk layout puts each region, and what a read   *)
(* at a byte offset returns                                                *)

\* width of one FAT entry, in bytes
FatWidth == IF variant = 16 THEN 2 ELSE 4
\* size of one FAT copy, in sectors
ImgFatSectors == IF variant = 16 THEN boot.fat_size ELSE boot.fat_size32
\* the FAT starts after the reserved sectors
ImgFatOff == boot.reserved_sectors * boot.sector_size
ImgFatEnd == ImgFatOff + ImgFatSectors * boot.sector_size
\* the fixed root region (16-bit layout) follows the FAT copies
ImgRootOff == (boot.reserved_sectors + boot.fat_count * ImgFatSectors) * boot.sector_size
\* the data clusters follow the root region (16-bit) or the FAT (32-bit)
ImgDataOff == IF variant = 16 THEN ImgRootOff + 32 * Len(rootRecs) ELSE ImgRootOff
ImgClusterBytes == boot.cluster_size * boot.sector_size
ImgEnd == ImgDataOff + (MaxCluster - 1) * ImgClusterBytes

\* read_exact of a directory record at byte offset off: the record stored
\* there, or end-of-file
ReadRecord(off) ==
    LET r == off - ImgRootOff
        d == off - ImgDataOff
    IN  IF variant = 16 /\ r >= 0 /\ r < 32 * Len(rootRecs) /\ r % 32 = 0
        THEN [ok |-> TRUE, rec |-> rootRecs[(r \div 32) + 1]]
        ELSE IF d >= 0 /\ off < ImgEnd /\ d % 32 = 0
        THEN [ok |-> TRUE,
              rec |-> clus[2 + (d \div ImgClusterBytes)][((d % ImgClusterBytes) \div 32) + 1]]
        ELSE [ok |-> FALSE, rec |-> RecTerm]

\* read of one FAT entry at byte offset off: the entry stored there (entries
\* of clusters the image does not hold are free), or end-of-file
ReadFat(off) ==
    LET f == off - ImgFatOff
    IN  IF f >= 0 /\ off < ImgFatEnd /\ f % FatWidth = 0
        THEN [ok |-> TRUE,
              val |-> IF (f \div FatWidth) \in DOMAIN fatTab
                      THEN fatTab[f \div FatWidth] ELSE 0]
        ELSE [ok |-> FALSE, val |-> 0]

----------------------------------------------------------------------------
(* The values the model starts from *)

\* the end-of-chain value a formatter writes
EocMark(v) == IF v = 16 THEN 65528 ELSE 268435448

\* a 32-bit entry whose reserved high 4 bits are not 0: 0x10000000 + cluster
HighBits(c) == 268435456 + c

\* free, a successor, end-of-chain; in the 32-bit layout also the last
\* cluster's number with a reserved high bit set
FatVals(v) ==
    {0} \cup (2..MaxCluster) \cup {EocMark(v)}
        \cup (IF v = 32 THEN {HighBits(MaxCluster)} ELSE {})

\* entries 0 and 1 are reserved: media descriptor and end-of-chain
FatTabs(v) ==
    { [c \in 0..MaxCluster |-> IF c < 2 THEN EocMark(v) ELSE f[c]] :
        f \in [2..MaxCluster -> FatVals(v)] }

Boot(ss, cs, rs, fc, re, sc, fs, lsc, sig, fs32, rdir) ==
    [sector_size |-> ss, cluster_size |-> cs, reserved_sectors |-> rs,
     fat_count |-> fc, root_entries |-> re, sector_count |-> sc,
     fat_size |-> fs, large_sector_count |-> lsc, signature |-> sig,
     fat_size32 |-> fs32, root_dir |-> rdir]

\* 16-bit layout: 1 reserved sector, 2 FAT copies of 1 sector, re root
\* entries, MaxCluster-1 clusters of cs sectors of ss bytes
Boot16(ss, cs, re) ==
    Boot(ss, cs, 1, 2, re, 3 + ((re * 32) \div ss) + (MaxCluster - 1) * cs,
         1, 0, SIG_B, 0, 0)

\* 32-bit layout: 1 reserved sector, 1 FAT copy of 1 sector, root at cluster 2
Boot32 ==
    Boot(SECTOR_SIZE, 1, 1, 1, 0, 0, 0, 2 + (MaxCluster - 1), SIG_B, 1, 2)

Geoms16 == { <<64, 1>>, <<32, 2>> }
RootSizes == {0, 2, 4}

NoDir == [kind |-> "None", start |-> 0, count |-> 0]
NoRd == [dir |-> NoDir, cluster |-> 0, entry_count |-> 0, count |-> 0,
         is_root |-> FALSE, entries |-> <<>>]
NoVol == [sector_size |-> 0, cluster_size |-> 0, reserved_sectors |-> 0,
          fat_count |-> 0, root_entries |-> 0, sector_count |-> 0,
          fat_size |-> 0, large_sector_count |-> 0, root_dir |-> 0]
NoResult == [op |-> "none", kind |-> "none", val |-> <<>>, entries |-> <<>>]
NoHist == [faulted |-> FALSE, lookups |-> 0, decoded |-> <<>>, stop |-> "none"]

InitProgram ==
    /\ pc = "closed"
    /\ vol = NoVol
    /\ pos = 0
    /\ rd = NoRd
    /\ result = NoResult
    /\ hist = NoHist
    /\ seen = {}

DefaultPattern == <<RecFile, RecDir>>

Init16 ==
    /\ variant = 16
    /\ \E g \in Geoms16 :
         LET epc == (g[1] * g[2]) \div 32
         IN  \/ /\ \E re \in RootSizes, p \in Patterns :
                     /\ boot = Boot16(g[1], g[2], re)
                     /\ rootRecs = Fill(p, re)
                /\ fatTab = [c \in 0..MaxCluster |-> EocMark(16)]
                /\ clus = [c \in 2..MaxCluster |-> Fill(DefaultPattern, epc)]
             \/ /\ boot = Boot16(g[1], g[2], 2)
                /\ rootRecs = Fill(DefaultPattern, 2)
                /\ fatTab \in FatTabs(16)
                /\ \E ps \in [2..MaxCluster -> Patterns] :
                     clus = [c \in 2..MaxCluster |-> Fill(ps[c], epc)]

Init32 ==
    /\ variant = 32
    /\ boot = Boot32
    /\ rootRecs = <<>>
    /\ fatTab \in FatTabs(32)
    /\ \E ps \in [2..MaxCluster -> Patterns] :
         clus = [c \in 2..MaxCluster |-> Fill(ps[c], SECTOR_SIZE \div 32)]

Init == (Init16 \/ Init32) /\ InitProgram

----------------------------------------------------------------------------
(* Opening a volume *)

Res(op, kind, val, entries) == [op |-> op, kind |-> kind, val |-> val, entries |-> entries]

\* fat.rs BootRecord::parse: the fields read from the boot sector, an abort
\* when the signature byte is not recognised, or the first failing seek/read
BootRecord_parse(fault) ==
    IF fault THEN [kind |-> "IoError", br |-> NoVol, pos |-> 0]
    ELSE IF ~(boot.signature = SIG_A \/ boot.signature = SIG_B)
    THEN [kind |-> "Panic", br |-> NoVol, pos |-> 39]
    ELSE [kind |-> "Ok",
          br |-> [sector_size |-> boot.sector_size,
                  cluster_size |-> boot.cluster_size,
                  reserved_sectors |-> boot.reserved_sectors,
                  fat_count |-> boot.fat_count,
                  root_entries |-> boot.root_entries,
                  sector_count |-> boot.sector_count,
                  fat_size |-> boot.fat_size,
                  large_sector_count |-> boot.large_sector_count,
                  root_dir |-> 0],
          pos |-> 54]

\* fat.rs FileSystem::new
FileSystem_new(fault) == BootRecord_parse(fault)

\* fat32.rs FAT32::new: asserts the sector size, the cluster size and the FAT
\* count, reads the 32-bit sector count, FAT size and root cluster; the
\* signature byte is not read
FAT32_new(fault) ==
    IF fault THEN [kind |-> "IoError", br |-> NoVol, pos |-> 0]
    ELSE IF boot.sector_size # SECTOR_SIZE THEN [kind |-> "Panic", br |-> NoVol, pos |-> 13]
    ELSE IF boot.cluster_size # 1 THEN [kind |-> "Panic", br |-> NoVol, pos |-> 14]
    ELSE IF boot.fat_count # 1 THEN [kind |-> "Panic", br |-> NoVol, pos |-> 17]
    ELSE [kind |-> "Ok",
          br |-> [sector_size |-> 0,
                  cluster_size |-> 0,
                  reserved_sectors |-> boot.reserved_sectors,
                  fat_count |-> 0,
                  root_entries |-> 0,
                  sector_count |-> boot.large_sector_count,
                  fat_size |-> boot.fat_size32,
                  large_sector_count |-> 0,
                  root_dir |-> boot.root_dir],
          pos |-> 82]

Opened(o) ==
    /\ pc' = CASE o.kind = "Ok" -> "idle"
               [] o.kind = "Panic" -> "aborted"
               [] OTHER -> "closed"
    /\ vol' = o.br
    /\ pos' = o.pos
    /\ result' = Res("open", o.kind, <<>>, <<>>)
    /\ hist' = [NoHist EXCEPT !.faulted = (o.kind = "IoError")]
    /\ UNCHANGED <<image, rd, seen>>

Open16 ==
    /\ pc = "closed"
    /\ variant = 16
    /\ result.op = "none"
    /\ \E fault \in BOOLEAN : Opened(FileSystem_new(fault))

Open32 ==
    /\ pc = "closed"
    /\ variant = 32
    /\ result.op = "none"
    /\ \E fault \in BOOLEAN : Opened(FAT32_new(fault))

----------------------------------------------------------------------------
(* Volume accessors *)

\* sectors_count with the fault of preferring the 32-bit field
sectors_count_PrefersLarge(v) ==
    IF v.large_sector_count # 0 THEN v.large_sector_count ELSE v.sector_count

\* fat.rs FileSystem::sectors_count
sectors_count(v) ==
    IF v.sector_count # 0 THEN v.sector_count ELSE v.large_sector_count

\* fat.rs FileSystem::volume_size: u32 * u32
volume_size16(v) == ArithW(MulLimbs(ToLimbs(sectors_count(v)), v.sector_size))

\* fat32.rs FAT32::sector_count
sector_count32(v) == v.sector_count

\* fat32.rs FAT32::volume_size: u32 * SECTOR_SIZE
volume_size32(v) == ArithW(MulLimbs(ToLimbs(sector_count32(v)), SECTOR_SIZE))

Returned(op, o) ==
    /\ pc' = IF o.ok THEN "idle" ELSE "aborted"
    /\ result' = Res(op, IF o.ok THEN "Ok" ELSE "Panic", o.val, <<>>)
    /\ UNCHANGED <<image, vol, pos, rd, hist, seen>>

SectorsCount ==
    /\ pc = "idle"
    /\ Returned("sectors_count",
                [ok |-> TRUE,
                 val |-> ToLimbs(IF variant = 16 THEN sectors_count(vol)
                                 ELSE sector_count32(vol))])

VolumeSize ==
    /\ pc = "idle"
    /\ \E o \in (IF variant = 16 THEN volume_size16(vol) ELSE volume_size32(vol)) :
         Returned("volume_size", o)

----------------------------------------------------------------------------
(* Outcomes of a step of read_directory *)

Out(pcv, r, p, res, h) == [pc |-> pcv, rd |-> r, pos |-> p, result |-> res, hist |-> h]

\* IoFailed with the fault of treating a failed read as the end of the
\* directory: the entries collected so far are returned as a listing
IoFailed_Partial(r, p, h, injected) ==
    [pc |-> "done", rd |-> r, pos |-> p,
     result |-> Res("read_directory", "Ok", <<>>, r.entries),
     hist |-> [h EXCEPT !.stop = "io", !.faulted = injected]]

\* a seek or read failed: Err(e), the `?` operator returns it at once and
\* the entries collected so far are dropped with the frame
IoFailed(r, p, h, injected) ==
    Out("done", r, p, Res("read_directory", "IoError", <<>>, <<>>),
        [h EXCEPT !.stop = "io", !.faulted = injected])

\* an assertion failed or checked arithmetic overflowed: the program aborts
Aborted(r, p, h) ==
    Out("aborted", r, p, Res("read_directory", "Panic", <<>>, <<>>),
        [h EXCEPT !.stop = "panic"])

\* Ok(entries)
Finished(r, p, h, why) ==
    Out("done", r, p, Res("read_directory", "Ok", <<>>, r.entries),
        [h EXCEPT !.stop = why])

Continue(pcv, r, p, h) == Out(pcv, r, p, NoResult, h)

Step(o) ==
    /\ pc' = o.pc
    /\ rd' = o.rd
    /\ pos' = o.pos
    /\ result' = o.result
    /\ hist' = o.hist
    /\ UNCHANGED <<image, vol, seen>>

----------------------------------------------------------------------------
(* fat.rs: FileSystem, the 16-bit reader *)

\* FileSystem::fat_start_sector
fat_start_sector16(v) == v.reserved_sectors

\* FileSystem::root_start_sector
root_start_sector16(v) == fat_start_sector16(v) + v.fat_count * v.fat_size

\* root_directory with the fault of a budget of one record too many
root_directory16_OneMore(v) ==
    [kind |-> "Root", start |-> root_start_sector16(v), count |-> v.root_entries + 1]

\* FileSystem::root_directory
root_directory16(v) ==
    [kind |-> "Root", start |-> root_start_sector16(v), count |-> v.root_entries]

\* FileSystem::data_start_sector: root_size = root_entries << 5 in 16 bits
data_start_sector16(v) ==
    root_start_sector16(v) + (Shl(v.root_entries, 5, 16) \div v.sector_size)

\* cluster_start with the fault of numbering the data clusters from 1
cluster_start16_FromOne(v, cluster) ==
    { IF s.ok
      THEN [ok |-> TRUE, val |-> data_start_sector16(v) + s.val * v.cluster_size]
      ELSE [ok |-> FALSE, val |-> 0] : s \in Arith(cluster - 1, 16) }

\* FileSystem::cluster_start: (cluster - 2) is a 16-bit subtraction
cluster_start16(v, cluster) ==
    { IF s.ok
      THEN [ok |-> TRUE, val |-> data_start_sector16(v) + s.val * v.cluster_size]
      ELSE [ok |-> FALSE, val |-> 0] : s \in Arith(cluster - 2, 16) }

\* FileSystem::fat_lookup: seek to the entry, read 16 bits
fat_lookup16(v, cluster) ==
    LET seek == fat_start_sector16(v) * v.sector_size + Shl(cluster, 1, 32)
        r == ReadFat(seek)
    IN  [ok |-> r.ok, val |-> r.val, pos |-> seek + 2]

\* the entry a record decodes to
DirectoryEntry16(rec) ==
    [name0 |-> rec.name0, flags |-> rec.attr, first_cluster |-> rec.lo, size |-> rec.size]

\* Push16 with the fault of leaving out the attribute test
Push16_All(entries, rec) == Append(entries, DirectoryEntry16(rec))

\* if flags != 0xf { entries.push(..) }
Push16(entries, rec) ==
    IF rec.attr # LFN_FLAGS THEN Append(entries, DirectoryEntry16(rec)) ELSE entries

\* ReadEntry16 with the fault of testing the first name byte against 0xE5
\* (the deleted-entry marker) in place of 0
ReadEntry16_WrongMarker(r, p, h, fault) ==
    LET rr == ReadRecord(p)
    IN  IF fault THEN {IoFailed(r, p, h, TRUE)}
        ELSE IF ~rr.ok THEN {IoFailed(r, p, h, FALSE)}
        ELSE IF rr.rec.name0 = 229 THEN {Finished(r, p + 11, h, "terminator")}
        ELSE {Continue("rd16",
                       [r EXCEPT !.entries = Push16(@, rr.rec), !.count = r.count + 1],
                       p + 32,
                       [h EXCEPT !.decoded = Append(@, rr.rec)])}

\* read_directory, the loop body after the end-of-cluster test: read the name
\* and extension, break on a first name byte of 0, read the other fields,
\* push, count += 1
ReadEntry16(r, p, h, fault) ==
    LET rr == ReadRecord(p)
    IN  IF fault THEN {IoFailed(r, p, h, TRUE)}
        ELSE IF ~rr.ok THEN {IoFailed(r, p, h, FALSE)}
        ELSE IF rr.rec.name0 = 0 THEN {Finished(r, p + 11, h, "terminator")}
        ELSE { IF c.ok
               THEN Continue("rd16",
                             [r EXCEPT !.entries = Push16(@, rr.rec), !.count = c.val],
                             p + 32,
                             [h EXCEPT !.decoded = Append(@, rr.rec)])
               ELSE Aborted(r, p + 32, h) : c \in Arith(r.count + 1, 16) }

\* Enter16 with the fault of seeking only when the handle is before the
\* first record, and reading on from the handle's position otherwise
Enter16_SeekIfBehind(r, start_sector, h, fault) ==
    { IF ~sk.ok THEN Aborted(r, pos, h)
      ELSE IF fault THEN IoFailed(r, pos, h, TRUE)
      ELSE Continue("rd16", r, IF pos < sk.val THEN sk.val ELSE pos, h) :
        sk \in Arith(start_sector * vol.sector_size, 32) }

\* read_directory, from the seek to the first record up to the loop
Enter16(r, start_sector, h, fault) ==
    { IF ~sk.ok THEN Aborted(r, pos, h)
      ELSE IF fault THEN IoFailed(r, pos, h, TRUE)
      ELSE Continue("rd16", r, sk.val, h) :
        sk \in Arith(start_sector * vol.sector_size, 32) }

\* read_directory, the records per cluster of a regular directory:
\* (cluster_size as u16 * sector_size as u16) >> 5, a 16-bit product
entry_count16(v) ==
    {[ok |-> ec.ok, val |-> ec.val \div 32] :
       ec \in Arith(v.cluster_size * v.sector_size, 16)}

\* read_directory, up to the loop: the root region is read from its start
\* sector for root_entries records; a regular directory first looks up its
\* first cluster's FAT entry and is empty when that is below 2
Begin16(dir, fault) ==
    IF dir.kind = "Root"
    THEN Enter16([NoRd EXCEPT !.dir = dir, !.entry_count = dir.count, !.is_root = TRUE],
                 dir.start, NoHist, fault)
    ELSE LET r0 == [NoRd EXCEPT !.dir = dir, !.cluster = dir.start]
             lk == fat_lookup16(vol, dir.start)
             h1 == [NoHist EXCEPT !.lookups = 1]
         IN  IF fault THEN {IoFailed(r0, pos, h1, TRUE)}
             ELSE IF ~lk.ok THEN {IoFailed(r0, pos, h1, FALSE)}
             ELSE IF lk.val < 2 THEN {Finished(r0, lk.pos, h1, "free_start")}
             ELSE UNION {
                    IF ~cs.ok THEN {Aborted(r0, lk.pos, h1)}
                    ELSE UNION {
                           IF ~ec.ok THEN {Aborted(r0, lk.pos, h1)}
                           ELSE Enter16([r0 EXCEPT !.entry_count = ec.val],
                                        cs.val, h1, FALSE) :
                             ec \in entry_count16(vol) } :
                      cs \in cluster_start16(vol, dir.start) }

\* read_directory, one iteration of the loop
Iter16(fault) ==
    IF rd.count = rd.entry_count
    THEN IF rd.is_root THEN {Finished(rd, pos, hist, "budget")}
         ELSE IF rd.cluster > EOC16_ABOVE THEN {Finished(rd, pos, hist, "eoc")}
         ELSE LET lk == fat_lookup16(vol, rd.cluster)
                  h1 == [hist EXCEPT !.lookups = @ + 1]
                  r1 == [rd EXCEPT !.cluster = lk.val]
              IN  IF fault THEN {IoFailed(rd, pos, h1, TRUE)}
                  ELSE IF ~lk.ok THEN {IoFailed(rd, pos, h1, FALSE)}
                  ELSE IF lk.val < 2 THEN {Finished(r1, lk.pos, h1, "free")}
                  ELSE UNION {
                         IF ~cs.ok THEN {Aborted(r1, lk.pos, h1)}
                         ELSE UNION {
                                IF ~sk.ok THEN {Aborted(r1, lk.pos, h1)}
                                ELSE ReadEntry16([r1 EXCEPT !.count = 0], sk.val, h1, FALSE) :
                                  sk \in Arith(cs.val * vol.sector_size, 32) } :
                           cs \in cluster_start16(vol, lk.val) }
    ELSE ReadEntry16(rd, pos, hist, fault)

\* the directories a caller can name: the root, or the first cluster recorded
\* in some directory entry
StartClusters == 0..MaxCluster

Dirs16 == {root_directory16(vol)}
             \cup {[kind |-> "Regular", start |-> c, count |-> 0] : c \in StartClusters}

ReadDirectory16 ==
    /\ pc = "idle"
    /\ variant = 16
    /\ \E dir \in Dirs16, fault \in BOOLEAN : \E o \in Begin16(dir, fault) : Step(o)

Loop16 ==
    /\ pc = "rd16"
    /\ hist.lookups < MaxLookups
    /\ \E fault \in BOOLEAN : \E o \in Iter16(fault) : Step(o)

----------------------------------------------------------------------------
(* fat32.rs: FAT32, the 32-bit reader *)

\* FAT32::fat_start_sector
fat_start_sector32(v) == v.reserved_sectors

\* FAT32::data_start_sector: u32 + u32
data_start_sector32(v) == Arith(fat_start_sector32(v) + v.fat_size, 32)

\* FAT32::cluster_start: assert!(cluster >= 2), then u32 arithmetic
cluster_start32(v, cluster) ==
    IF cluster < 2 THEN {[ok |-> FALSE, val |-> 0]}
    ELSE UNION { IF d.ok THEN Arith(d.val + (cluster - 2), 32)
                 ELSE {[ok |-> FALSE, val |-> 0]} : d \in data_start_sector32(v) }

\* FAT32::root_directory
root_directory32(v) == [kind |-> "Cluster", start |-> v.root_dir, count |-> 0]

\* FAT32::fat_lookup: seek to the entry, read 32 bits
fat_lookup32(v, cluster) ==
    UNION { IF ~m.ok THEN {[kind |-> "Panic", val |-> 0, pos |-> 0]}
            ELSE { IF ~a.ok THEN [kind |-> "Panic", val |-> 0, pos |-> 0]
                   ELSE LET r == ReadFat(a.val)
                        IN  [kind |-> IF r.ok THEN "Ok" ELSE "IoError",
                             val |-> r.val, pos |-> a.val + 4] :
                     a \in Arith(m.val + Shl(cluster, 2, 32), 32) } :
              m \in Arith(fat_start_sector32(v) * SECTOR_SIZE, 32) }

\* the entry a record decodes to: the cluster is the 16-bit field at offset 26
DirectoryEntry32(rec) ==
    [name0 |-> rec.name0, flags |-> rec.attr, cluster |-> rec.lo, size |-> rec.size]

\* if flags != 0xf { entries.push(..) }
Push32(entries, rec) ==
    IF rec.attr # LFN_FLAGS THEN Append(entries, DirectoryEntry32(rec)) ELSE entries

\* read_directory, the for loop over the n records left in the cluster, from
\* byte offset p: ends at the end of the cluster, at a first name byte of 0
\* (break 'outer), or at a failing read
RECURSIVE ScanCluster32(_, _, _, _)
ScanCluster32(p, n, ents, dec) ==
    IF n = 0 THEN [kind |-> "end", entries |-> ents, decoded |-> dec, pos |-> p]
    ELSE LET rr == ReadRecord(p)
         IN  IF ~rr.ok THEN [kind |-> "eof", entries |-> ents, decoded |-> dec, pos |-> p]
             ELSE IF rr.rec.name0 = 0
             THEN [kind |-> "term", entries |-> ents, decoded |-> dec, pos |-> p + 11]
             ELSE ScanCluster32(p + 32, n - 1, Push32(ents, rr.rec), Append(dec, rr.rec))

\* read_directory, up to the while loop
Begin32(dir) ==
    Continue("rd32",
             [NoRd EXCEPT !.dir = dir, !.cluster = dir.start,
                          !.entry_count = SECTOR_SIZE \div 32],
             pos, NoHist)

\* read_directory, one iteration of the while loop: the loop test, the seek
\* to the cluster, the for loop over its records, the successor lookup
Iter32(fault) ==
    IF ~(rd.cluster < LOOP32_BELOW) THEN {Finished(rd, pos, hist, "loop_exit")}
    ELSE UNION {
      IF ~cs.ok THEN {Aborted(rd, pos, hist)}
      ELSE UNION {
        IF ~sk.ok THEN {Aborted(rd, pos, hist)}
        ELSE IF fault THEN {IoFailed(rd, pos, hist, TRUE)}
        ELSE LET sc == ScanCluster32(sk.val, rd.entry_count, rd.entries, hist.decoded)
                 r1 == [rd EXCEPT !.entries = sc.entries]
                 h1 == [hist EXCEPT !.decoded = sc.decoded]
                 h2 == [h1 EXCEPT !.lookups = @ + 1]
             IN  IF sc.kind = "eof" THEN {IoFailed(r1, sc.pos, h1, FALSE)}
                 ELSE IF sc.kind = "term" THEN {Finished(r1, sc.pos, h1, "terminator")}
                 ELSE { CASE lk.kind = "Panic" -> Aborted(r1, sc.pos, h2)
                          [] lk.kind = "IoError" -> IoFailed(r1, sc.pos, h2, FALSE)
                          [] OTHER -> Continue("rd32", [r1 EXCEPT !.cluster = lk.val],
                                               lk.pos, h2) :
                          lk \in fat_lookup32(vol, rd.cluster) } :
          sk \in Arith(cs.val * SECTOR_SIZE, 32) } :
        cs \in cluster_start32(vol, rd.cluster) }

Dirs32 == {root_directory32(vol)}
             \cup {[kind |-> "Cluster", start |-> c, count |-> 0] : c \in StartClusters}

ReadDirectory32 ==
    /\ pc = "idle"
    /\ variant = 32
    /\ \E dir \in Dirs32 : Step(Begin32(dir))

Loop32 ==
    /\ pc = "rd32"
    /\ hist.lookups < MaxLookups
    /\ \E fault \in BOOLEAN : \E o \in Iter32(fault) : Step(o)

\* the caller takes the result; the volume can be used again
Return ==
    /\ pc = "done"
    /\ pc' = "idle"
    /\ rd' = NoRd
    /\ result' = NoResult
    /\ hist' = NoHist
    /\ UNCHANGED <<image, vol, pos, seen>>

\* the caller takes the result and keeps a listing it was given, as
\* browse_dir does while it descends into the subdirectories
Remember ==
    /\ pc = "done"
    /\ pc' = "idle"
    /\ seen' = IF result.kind = "Ok"
               THEN seen \cup {[dir |-> rd.dir, entries |-> result.entries]}
               ELSE seen
    /\ rd' = NoRd
    /\ result' = NoResult
    /\ hist' = NoHist
    /\ UNCHANGED <<image, vol, pos>>

----------------------------------------------------------------------------
(* Reading directories of well-formed small images *)

Next ==
    \/ Open16
    \/ Open32
    \/ ReadDirectory16
    \/ Loop16
    \/ ReadDirectory32
    \/ Loop32
    \/ Return

Spec == Init /\ [][Next]_vars

----------------------------------------------------------------------------
(* Reading directories again and again, the caller keeping the listings *)

\* the FATs of the images read repeatedly: one chain through all the
\* clusters, or every cluster a chain of its own
RepeatTabs(v) ==
    { [c \in 0..MaxCluster |-> IF c >= 2 /\ c < MaxCluster THEN c + 1 ELSE EocMark(v)],
      [c \in 0..MaxCluster |-> EocMark(v)] }

InitRepeat == Init /\ fatTab \in RepeatTabs(variant)

NextRepeat ==
    \/ Open16
    \/ Open32
    \/ ReadDirectory16
    \/ Loop16
    \/ ReadDirectory32
    \/ Loop32
    \/ Remember

SpecRepeat == InitRepeat /\ [][NextRepeat]_vars

----------------------------------------------------------------------------
(* Opening volumes of any geometry and asking their size *)

SectorSizes == {512, 4096}
SmallCounts == {0, 1, 40000, 65535}
LargeCounts == {0, 70000, 8388608, 2147483647}
Signatures == {0, 40, 41, 85}

InitGeom16 ==
    /\ variant = 16
    /\ \E ss \in SectorSizes, sc \in SmallCounts, lsc \in LargeCounts, sig \in Signatures :
         boot = Boot(ss, 1, 1, 2, 512, sc, 32, lsc, sig, 0, 0)

InitGeom32 ==
    /\ variant = 32
    /\ \E ss \in SectorSizes, cs \in {1, 8}, fc \in {1, 2}, lsc \in LargeCounts,
          sig \in Signatures :
         boot = Boot(ss, cs, 32, fc, 0, 0, 0, lsc, sig, 1000, 2)

InitGeom ==
    /\ InitGeom16 \/ InitGeom32
    /\ fatTab = [c \in 0..MaxCluster |-> EocMark(variant)]
    /\ rootRecs = <<>>
    /\ clus = [c \in 2..MaxCluster |-> <<>>]
    /\ InitProgram

NextGeom ==
    \/ Open16
    \/ Open32
    \/ SectorsCount
    \/ VolumeSize

SpecGeom == InitGeom /\ [][NextGeom]_vars

----------------------------------------------------------------------------
(* Where the clusters of a volume lie: volumes of any geometry, the layout *)
(* functions of the readers applied to them.  No record is read here; the  *)
(* record regions of these images are left empty.                          *)

\* the byte offset read_directory seeks to for a cluster, fat.rs:
\* cluster_start(cluster) * sector_size as u32, a 32-bit product
cluster_seek16(v, cluster) ==
    UNION { IF ~cs.ok THEN {[ok |-> FALSE, val |-> <<>>]}
            ELSE ArithW(MulLimbs(ToLimbs(cs.val), v.sector_size)) :
              cs \in cluster_start16(v, cluster) }

\* fat32.rs: cluster_start(cluster) * SECTOR_SIZE, a 32-bit product
cluster_seek32(v, cluster) ==
    UNION { IF ~cs.ok THEN {[ok |-> FALSE, val |-> <<>>]}
            ELSE ArithW(MulLimbs(ToLimbs(cs.val), SECTOR_SIZE)) :
              cs \in cluster_start32(v, cluster) }

\* a layout function returned (or aborted) for the cluster argument c
ReturnedFor(op, c, o) ==
    /\ pc' = IF o.ok THEN "idle" ELSE "aborted"
    /\ result' = Res(op, IF o.ok THEN "Ok" ELSE "Panic", o.val, <<>>)
    /\ rd' = [NoRd EXCEPT !.cluster = c]
    /\ UNCHANGED <<image, vol, pos, hist, seen>>

\* the outcomes of data_start_sector(), the value as digits
DataStartOutcomes(v) ==
    IF variant = 16
    THEN {[ok |-> TRUE, val |-> ToLimbs(data_start_sector16(v))]}
    ELSE {[ok |-> d.ok, val |-> ToLimbs(d.val)] : d \in data_start_sector32(v)}

\* the outcomes of cluster_start(cluster), the value as digits
ClusterStartOutcomes(v, cluster) ==
    {[ok |-> s.ok, val |-> ToLimbs(s.val)] :
       s \in (IF variant = 16 THEN cluster_start16(v, cluster)
              ELSE cluster_start32(v, cluster))}

\* the cluster numbers the layout functions are applied to: the first data
\* cluster, its successor, and one far into a large volume
LayoutClusters == IF variant = 16 THEN {2, 3, 65000} ELSE {2, 3, 8388608}

DataStartSector ==
    /\ pc = "idle"
    /\ \E o \in DataStartOutcomes(vol) : ReturnedFor("data_start_sector", 0, o)

ClusterStart ==
    /\ pc = "idle"
    /\ \E c \in LayoutClusters : \E o \in ClusterStartOutcomes(vol, c) :
         ReturnedFor("cluster_start", c, o)

SeekCluster ==
    /\ pc = "idle"
    /\ \E c \in LayoutClusters :
         \E o \in (IF variant = 16 THEN cluster_seek16(vol, c) ELSE cluster_seek32(vol, c)) :
           ReturnedFor("seek", c, o)

EntriesPerCluster ==
    /\ pc = "idle"
    /\ variant = 16
    /\ \E o \in entry_count16(vol) :
         ReturnedFor("entry_count", 0, [ok |-> o.ok, val |-> ToLimbs(o.val)])

LayoutSectorSizes == {512, 4096}
LayoutClusterSizes == {1, 64, 128}
LayoutReserved == {1, 32}
LayoutFatCounts == {1, 2}
LayoutRootEntries == {0, 512, 2048, 65535}
LayoutFatSizes == {1, 256}
\* 2^24 sectors
LayoutSectors == {70000, 16777216}

InitLayout16 ==
    /\ variant = 16
    /\ \E ss \in LayoutSectorSizes, cs \in LayoutClusterSizes, rs \in LayoutReserved,
          fc \in LayoutFatCounts, re \in LayoutRootEntries, fs \in LayoutFatSizes :
         boot = Boot(ss, cs, rs, fc, re, 0, fs, 16777216, SIG_B, 0, 0)

InitLayout32 ==
    /\ variant = 32
    /\ \E rs \in LayoutReserved, fc \in LayoutFatCounts, fs \in LayoutFatSizes,
          lsc \in LayoutSectors :
         boot = Boot(SECTOR_SIZE, 1, rs, fc, 0, 0, 0, lsc, SIG_B, fs * 128, 2)

InitLayout ==
    /\ InitLayout16 \/ InitLayout32
    /\ fatTab = [c \in 0..MaxCluster |-> EocMark(variant)]
    /\ rootRecs = <<>>
    /\ clus = [c \in 2..MaxCluster |-> <<>>]
    /\ InitProgram

NextLayout ==
    \/ Open16
    \/ Open32
    \/ DataStartSector
    \/ ClusterStart
    \/ SeekCluster
    \/ EntriesPerCluster

SpecLayout == InitLayout /\ [][NextLayout]_vars

----------------------------------------------------------------------------
(* What a directory holds on disk, read off the image and its FAT *)

\* the clusters of the chain that starts at cluster c: c, its FAT successor,
\* and so on while the value names a data cluster of the image
RECURSIVE ChainFrom(_, _)
ChainFrom(c, fuel) ==
    IF fuel = 0 \/ c \notin 2..MaxCluster THEN <<>>
    ELSE <<c>> \o ChainFrom(fatTab[c], fuel - 1)

RECURSIVE Concat(_)
Concat(ss) == IF ss = <<>> THEN <<>> ELSE Head(ss) \o Concat(Tail(ss))

\* the records of a directory in on-disk order: the root region, or the
\* clusters of its chain one after the other
DirStream(dir) ==
    IF dir.kind = "Root" THEN rootRecs
    ELSE LET ch == ChainFrom(dir.start, MaxCluster)
         IN  Concat([i \in 1..Len(ch) |-> clus[ch[i]]])

\* the position of the first record whose first name byte is 0, or 0
RECURSIVE FirstTerm(_, _)
FirstTerm(s, i) ==
    IF i > Len(s) THEN 0 ELSE IF s[i].name0 = 0 THEN i ELSE FirstTerm(s, i + 1)

\* the entries of the records that are not long-filename records, in order
RECURSIVE Listing(_)
Listing(s) ==
    IF s = <<>> THEN <<>>
    ELSE (IF Head(s).attr = 15 THEN <<>>
          ELSE <<IF variant = 16 THEN DirectoryEntry16(Head(s))
                 ELSE DirectoryEntry32(Head(s))>>) \o Listing(Tail(s))

ReadDone == pc = "done" /\ result.op = "read_directory"

\* the first cluster of the directory is a data cluster whose FAT entry is in use
Allocated(dir) ==
    dir.kind # "Root" => (dir.start \in 2..MaxCluster /\ fatTab[dir.start] >= 2)

----------------------------------------------------------------------------
(* C1: read_directory stops at the first record whose first name byte is   *)
(* 0x00.  Whenever a read ends at such a record, it returns Ok with        *)
(* exactly the entries of the non-long-filename records that precede the   *)
(* first terminator of the directory in on-disk order (root region, or     *)
(* cluster after cluster along the chain); and a read of a directory that  *)
(* holds a terminator, with no storage fault, ends at it.                  *)
C1_TerminatorStops ==
    ReadDone =>
      LET s == DirStream(rd.dir)
          k == FirstTerm(s, 1)
      IN  /\ hist.stop = "terminator" =>
               /\ k > 0
               /\ result.kind = "Ok"
               /\ result.entries = Listing(SubSeq(s, 1, k - 1))
          /\ (k > 0 /\ ~hist.faulted /\ Allocated(rd.dir)) => hist.stop = "terminator"

\* a read ended at a terminator in the second cluster of a chain, after
\* entries of the first cluster, and records follow the terminator
C1_Witness ==
    /\ ReadDone
    /\ hist.stop = "terminator"
    /\ rd.dir.kind # "Root"
    /\ hist.lookups >= 1
    /\ Len(result.entries) >= 2
    /\ LET s == DirStream(rd.dir) IN FirstTerm(s, 1) < Len(s)

----------------------------------------------------------------------------
\* a FAT value that marks the end of a chain: at or above 0xFFF0 (16-bit
\* entries), at or above 0x0FFFFFF0 in the low 28 bits (32-bit entries)
IsEoc(v) ==
    IF variant = 16 THEN v >= 65520 ELSE (v % 268435456) >= 268435440

NoTerm(s) == FirstTerm(s, 1) = 0

ReadEnded == pc \in {"done", "aborted"} /\ result.op = "read_directory"

\* the chain of dir is c1 -> c2 -> end-of-chain, c2 another cluster than c1
TwoClusterChain(dir) ==
    /\ dir.kind # "Root"
    /\ dir.start \in 2..MaxCluster
    /\ fatTab[dir.start] \in (2..MaxCluster) \ {dir.start}
    /\ IsEoc(fatTab[fatTab[dir.start]])

(* C2: a directory whose chain is c1 -> c2 -> end-of-chain, every record   *)
(* slot of both clusters populated: read_directory, with no storage fault, *)
(* returns Ok with the entries of c1 followed by the entries of c2, in     *)
(* both variants.                                                          *)
C2_TwoClusterChainListed ==
    (ReadEnded /\ ~hist.faulted /\ TwoClusterChain(rd.dir)
       /\ NoTerm(clus[rd.dir.start] \o clus[fatTab[rd.dir.start]])) =>
      /\ result.kind = "Ok"
      /\ result.entries = Listing(clus[rd.dir.start] \o clus[fatTab[rd.dir.start]])

(* C3: no entry of a returned listing has attribute byte 0x0F, and the     *)
(* listing is exactly the entries of the records decoded before the stop   *)
(* whose attribute byte is not 0x0F, in the order they were decoded.       *)
C3_NoLongNameEntries ==
    (pc \in {"rd16", "rd32", "done"}) =>
      /\ \A i \in 1..Len(rd.entries) : rd.entries[i].flags # 15
      /\ rd.entries = Listing(hist.decoded)
      /\ (ReadDone /\ result.kind = "Ok") => result.entries = rd.entries

\* a listing was returned after a long-filename record and other records
\* were decoded
C3_Witness ==
    /\ ReadDone
    /\ result.kind = "Ok"
    /\ \E i \in 1..Len(hist.decoded) : hist.decoded[i].attr = 15
    /\ Len(result.entries) >= 2
    /\ Len(result.entries) < Len(hist.decoded)

\* an upper bound on the clusters of the volume
MaxChainLen ==
    IF variant = 16 THEN sectors_count(vol) \div vol.cluster_size
    ELSE sector_count32(vol)

(* C4: read_directory performs at most total_sectors / cluster_size FAT    *)
(* lookups, also when the chain of the directory is a cycle.               *)
C4_LookupsBounded ==
    (pc \in {"rd16", "rd32", "done", "aborted"}) => hist.lookups <= MaxChainLen

(* C5: when the FAT entry of a subdirectory's first cluster is below 2,    *)
(* read_directory returns Ok with no entries, in both variants.            *)
C5_FreeFirstClusterIsEmpty ==
    (ReadEnded /\ ~hist.faulted /\ rd.dir.kind # "Root"
       /\ rd.dir.start \in 2..MaxCluster /\ fatTab[rd.dir.start] < 2) =>
      /\ result.kind = "Ok"
      /\ result.entries = <<>>

(* C6: opening a volume whose signature byte is neither 0x28 nor 0x29      *)
(* returns an error to the caller: the program does not abort and no       *)
(* volume is constructed, in both variants.                                *)
C6_BadSignatureIsAnError ==
    (result.op = "open" /\ boot.signature \notin {40, 41}) =>
      /\ pc = "closed"
      /\ result.kind \notin {"Ok", "Panic"}

(* C7: when a seek or read fails during read_directory, the call returns   *)
(* an IoError and no entries; a listing is returned only by a call in      *)
(* which no seek or read failed.                                           *)
C7_IoFailureReturnsNoEntries ==
    ReadDone =>
      /\ (hist.faulted \/ hist.stop = "io") =>
            (result.kind = "IoError" /\ result.entries = <<>>)
      /\ result.kind = "Ok" => (~hist.faulted /\ hist.stop # "io")

\* a storage fault hit a call that had already collected entries
C7_Witness ==
    /\ ReadDone
    /\ hist.faulted
    /\ Len(rd.entries) >= 1
    /\ result.kind = "IoError"

\* the records decoded that are not long-filename records
Kept(s) == SelectSeq(s, LAMBDA r : r.attr # 15)

(* C8: in the 32-bit variant the cluster of a returned entry is            *)
(* (high field << 16) | (low field) of its record.                         *)
C8_ClusterCombinesHighAndLow ==
    (ReadDone /\ variant = 32 /\ result.kind = "Ok") =>
      \A i \in 1..Len(result.entries) :
        result.entries[i].cluster = Kept(hist.decoded)[i].hi * 65536 + Kept(hist.decoded)[i].lo

(* C9: in the 16-bit variant the total sector count is the 16-bit          *)
(* sector_count field of the boot record when that is not 0, and the       *)
(* 32-bit large_sector_count field when it is 0.                           *)
C9_SectorsCountFallback ==
    (variant = 16 /\ result.op = "sectors_count") =>
      /\ result.kind = "Ok"
      /\ result.val = ToLimbs(IF boot.sector_count # 0 THEN boot.sector_count
                              ELSE boot.large_sector_count)

\* the count was taken from the 32-bit field of a volume whose 16-bit field is 0
C9_Witness ==
    /\ variant = 16
    /\ result.op = "sectors_count"
    /\ boot.sector_count = 0
    /\ boot.large_sector_count > 65535
    /\ result.val = ToLimbs(boot.large_sector_count)

\* the total sector count of the opened volume
TotalSectors ==
    IF variant = 16
    THEN (IF boot.sector_count # 0 THEN boot.sector_count ELSE boot.large_sector_count)
    ELSE boot.large_sector_count

(* C10: volume_size() returns sector_size x total sector count, also when  *)
(* the product is 2^32 or more, in both variants.                          *)
C10_VolumeSizeIsProduct ==
    result.op = "volume_size" =>
      /\ result.kind = "Ok"
      /\ result.val = MulLimbs(ToLimbs(TotalSectors), boot.sector_size)

----------------------------------------------------------------------------
(* C11: cluster_start(2) is data_start_sector(), in both variants and for  *)
(* every geometry: it returns when and only when data_start_sector()       *)
(* returns, and returns the same sector.                                   *)
C11_FirstClusterAtDataStart ==
    (result.op = "cluster_start" /\ rd.cluster = 2) =>
      \E d \in DataStartOutcomes(vol) :
        /\ d.ok = (result.kind = "Ok")
        /\ d.val = result.val

\* cluster_start(2) returned on a 16-bit volume with a root region and
\* clusters of many sectors
C11_Witness ==
    /\ result.op = "cluster_start"
    /\ rd.cluster = 2
    /\ result.kind = "Ok"
    /\ variant = 16
    /\ boot.root_entries = 512
    /\ boot.cluster_size = 64
    /\ result.val = ToLimbs(boot.reserved_sectors + boot.fat_count * boot.fat_size
                            + (512 * 32) \div boot.sector_size)

(* C17: data_start_sector() is reserved_sectors + fat_count x fat_size     *)
(* + floor(root_entries x 32 / sector_size) in the 16-bit variant, for     *)
(* every 16-bit root_entries, and reserved_sectors + fat_count x fat_size  *)
(* in the 32-bit variant.                                                  *)
C17_DataStartSectorFormula ==
    result.op = "data_start_sector" =>
      /\ result.kind = "Ok"
      /\ result.val =
           ToLimbs(IF variant = 16
                   THEN boot.reserved_sectors + boot.fat_count * boot.fat_size
                          + (boot.root_entries * 32) \div boot.sector_size
                   ELSE boot.reserved_sectors + boot.fat_count * boot.fat_size32)

(* C18: the seek to a cluster targets (its sector) x (sector size) as a    *)
(* mathematical integer whenever the sector is below the total sector      *)
(* count: the computation does not abort and the offset is not reduced     *)
(* modulo 2^32.                                                            *)
C18_SeekIsSectorTimesSectorSize ==
    (result.op = "seek" /\ rd.cluster >= 2) =>
      \A s \in (IF variant = 16 THEN cluster_start16(vol, rd.cluster)
                ELSE cluster_start32(vol, rd.cluster)) :
        (s.ok /\ s.val < TotalSectors) =>
          /\ result.kind = "Ok"
          /\ result.val = MulLimbs(ToLimbs(s.val), boot.sector_size)

(* C19: in the 16-bit variant the number of records per cluster of a       *)
(* subdirectory is (cluster_size x sector_size) / 32 for every geometry,   *)
(* also when cluster_size x sector_size is 65536 or more.                  *)
C19_EntriesPerCluster ==
    result.op = "entry_count" =>
      /\ result.kind = "Ok"
      /\ result.val = ToLimbs((boot.cluster_size * boot.sector_size) \div 32)

----------------------------------------------------------------------------
\* a read_directory call is in progress or has ended
Reading ==
    /\ pc \in {"rd16", "rd32", "done", "aborted"}
    /\ result.op \in {"none", "read_directory"}
    /\ rd.dir.kind # "None"

(* C12: once a successor lookup has returned an end-of-chain marker, the   *)
(* call makes no further seek or read: the handle stays in the FAT, where  *)
(* the lookup left it, the program does not abort, and the call ends with  *)
(* Ok and the entries collected so far.                                    *)
C12_NoReadAtEndOfChain ==
    (Reading /\ hist.lookups >= 1 /\ IsEoc(rd.cluster) /\ ~hist.faulted) =>
      /\ pc # "aborted"
      /\ pos \in ImgFatOff..ImgFatEnd
      /\ pc = "done" => (result.kind = "Ok" /\ result.entries = rd.entries)

(* C13: in the 32-bit variant the walk ends at a FAT value v only when     *)
(* (v & 0x0FFFFFFF) >= 0x0FFFFFF0; a value whose low 28 bits name a data   *)
(* cluster continues the chain there.                                      *)
C13_EndOfChainIsMasked ==
    (variant = 32 /\ Reading /\ pc = "done" /\ hist.stop = "loop_exit") =>
      IsEoc(rd.cluster)

(* C14: when a successor lookup returns a value below 2, the call ends     *)
(* with Ok and the entries collected so far, in both variants; it does not *)
(* fail or abort.                                                          *)
C14_FreeSuccessorEndsListing ==
    (Reading /\ pc \in {"done", "aborted"} /\ ~hist.faulted
       /\ rd.dir.kind # "Root" /\ rd.dir.start \in 2..MaxCluster
       /\ hist.lookups >= 1 /\ rd.cluster < 2) =>
      /\ pc = "done"
      /\ result.kind = "Ok"
      /\ result.entries = Listing(hist.decoded)

(* C15: read_directory of a directory whose start cluster is 0 or 1        *)
(* returns Ok with no entries, without aborting, in both variants.         *)
C15_StartClusterBelowTwoIsEmpty ==
    (Reading /\ pc \in {"done", "aborted"} /\ ~hist.faulted
       /\ rd.dir.kind # "Root" /\ rd.dir.start < 2) =>
      /\ pc = "done"
      /\ result.kind = "Ok"
      /\ result.entries = <<>>

(* C16: reading the fixed root region (16-bit variant) makes no FAT        *)
(* lookup and decodes at most root_entries records, long-filename records  *)
(* included; with no terminator among them and no storage fault it ends    *)
(* when the budget is used up and returns the entries of all of them; with *)
(* root_entries = 0 it reads no record and returns no entries.             *)
C16_FixedRootBudget ==
    (Reading /\ rd.is_root) =>
      /\ hist.lookups = 0
      /\ Len(hist.decoded) <= boot.root_entries
      /\ hist.decoded = SubSeq(rootRecs, 1, Len(hist.decoded))
      /\ (pc = "done" /\ ~hist.faulted /\ NoTerm(rootRecs)) =>
           /\ result.kind = "Ok"
           /\ hist.decoded = rootRecs
           /\ result.entries = Listing(rootRecs)
      /\ (pc = "done" /\ ~hist.faulted /\ boot.root_entries = 0) =>
           /\ result.kind = "Ok"
           /\ result.entries = <<>>
           /\ pos = ImgRootOff

\* the root region was read to the end of its budget, long-filename records
\* among those decoded
C16_Witness ==
    /\ Reading
    /\ rd.is_root
    /\ pc = "done"
    /\ hist.stop = "budget"
    /\ Len(hist.decoded) = boot.root_entries
    /\ boot.root_entries = 4
    /\ Len(result.entries) = 2

----------------------------------------------------------------------------
\* the fields read from the boot sector when the volume was opened
ParsedVolume == IF variant = 16 THEN FileSystem_new(FALSE).br ELSE FAT32_new(FALSE).br

(* C20: the result of read_directory does not depend on where earlier      *)
(* operations left the storage handle: a read of a directory whose listing *)
(* a caller already holds, with no storage fault, returns Ok with the same *)
(* entries, after any sequence of successful and failed reads; and the     *)
(* geometry fields of an opened volume stay as parsed.                     *)
C20_ReadsAreRepeatable ==
    /\ pc \in {"idle", "rd16", "rd32", "done"} => vol = ParsedVolume
    /\ \A s \in seen :
         (Reading /\ pc \in {"done", "aborted"} /\ ~hist.faulted /\ rd.dir = s.dir) =>
           /\ pc = "done"
           /\ result.kind = "Ok"
           /\ result.entries = s.entries

\* a directory was read again, with entries, after it and another directory
\* had been read and kept, the handle left outside the directory's region
C20_Witness ==
    /\ Reading
    /\ pc = "done"
    /\ result.kind = "Ok"
    /\ Len(result.entries) >= 1
    /\ \E s \in seen : s.dir = rd.dir
    /\ \E s \in seen : s.dir # rd.dir /\ Len(s.entries) >= 1

====
